---- MODULE Spec2Model ----
(***************************************************************************)
(* Model of firmware/src/main.rs: the staged startup sequencer of an ESP32 *)
(* example.  main() acquires the hardware handles, then runs on a single   *)
(* current-thread runtime the three phases start_wifi, update_time and     *)
(* display_url, each unwrapped with expect().                              *)
(*                                                                         *)
(* The external collaborators (radio driver, SNTP client, wall clock, HTTP *)
(* transport) are doubles: each call's outcome is chosen when the call is  *)
(* made and recorded in `calls` / `faults`.  The build-time credentials    *)
(* and the number of polls the SNTP double needs are fixed in Init.        *)
(*                                                                         *)
(* Text that the program formats or passes on (timestamp, body) is a       *)
(* sequence of one-character strings.  A message (an error label, a panic  *)
(* message) is a sequence of words.  An error value (anyhow::Error) is the *)
(* sequence of its messages, outermost context first, root cause last.     *)
(* Credentials are modelled by their byte length, the only thing that      *)
(* heapless::String::try_from looks at.                                    *)
(***************************************************************************)
EXTENDS Integers, Sequences, FiniteSets, TLC

\* ---------------------------------------------------------------- bounds
\* How many bytes over the capacity a credential of the model may be.
MaxOver == 1
\* The largest number of non-Completed polls of a sync double that completes.
MaxPolls == 3
\* The longest body the transport double returns.
MaxBodyLen == 2

\* ------------------------------------------------------- program constants
\* heapless::String<32>
SSID_CAP == 32
\* heapless::String<64>
PASS_CAP == 64

SsidLens == {1, SSID_CAP - 1, SSID_CAP} \cup (SSID_CAP + 1 .. SSID_CAP + MaxOver)
PassLens == {1, PASS_CAP - 1, PASS_CAP} \cup (PASS_CAP + 1 .. PASS_CAP + MaxOver)

\* Poll and sleep counters (and the call record of the poll loop) stop
\* growing here.  A sync double that completes is polled at most
\* MaxPolls + 1 times, so only one that never completes gets this far.
PollCap == MaxPolls + 2

BodyChars == {"h", "\n"}
Bodies == UNION {[1..n -> BodyChars] : n \in 0..MaxBodyLen}

DnsAddrs == {<<"8", ".", "8">>, <<"1", ".", "1">>}

\* Wall-clock readings of the clock double.
Times ==
    { [day |-> 1, month |-> 1, year |-> 1970, hour |-> 0, minute |-> 0, second |-> 0],
      [day |-> 1, month |-> 11, year |-> 2026, hour |-> 9, minute |-> 5, second |-> 7],
      [day |-> 31, month |-> 12, year |-> 2025, hour |-> 23, minute |-> 59, second |-> 59] }

SyncStatus == {"Reset", "Completed", "InProgress"}

\* ------------------------------------------------------------ error values
\* Root causes reported by the collaborators: errors without context.
EspErr == << <<"EspError">> >>
CapacityErr == << <<"CapacityError">> >>
FormatErr == << <<"time::error::Format">> >>
HttpErr == << <<"reqwest::Error">> >>
IoErr == << <<"io::Error">> >>

NoResult == [st |-> "none", err |-> <<>>]
Ok == [st |-> "ok", err |-> <<>>]
Err(e) == [st |-> "err", err |-> e]

\* anyhow's .context(label): the label becomes the outermost message.
Context(label, e) == <<label>> \o e

RECURSIVE Join(_)
Join(ms) == IF ms = <<>> THEN <<>> ELSE Head(ms) \o Join(Tail(ms))

\* {:?} of an error: its outermost message, then the causes below it.
DebugFmt(e) ==
    IF Len(e) = 1 THEN e[1] ELSE e[1] \o <<"Caused by:">> \o Join(Tail(e))

\* The panic message of Result::expect(msg): "msg: {:?}" of the error.
ExpectMsg(msg, e) == msg \o <<":">> \o DebugFmt(e)

Running == [kind |-> "running", site |-> "", msg |-> <<>>]
Panic(site, m) == [kind |-> "panic", site |-> site, msg |-> m]
\* main returns Err(e): the runtime reports "Error: {:?}" and exits with failure.
MainErr(e) == [kind |-> "error", site |-> "main", msg |-> <<"Error:">> \o DebugFmt(e)]
Success == [kind |-> "success", site |-> "main", msg |-> <<>>]

\* ---------------------------------------------------------------- helpers
\* heapless::String::<N>::try_from(&str) succeeds iff the text fits.
Fits(len, cap) == len <= cap

Digits == <<"0", "1", "2", "3", "4", "5", "6", "7", "8", "9">>
Digit(n) == Digits[(n % 10) + 1]
Pad2(n) == <<Digit(n \div 10), Digit(n)>>
Pad4(n) == <<Digit(n \div 1000), Digit(n \div 100), Digit(n \div 10), Digit(n)>>
MonthShort ==
    << <<"J","a","n">>, <<"F","e","b">>, <<"M","a","r">>, <<"A","p","r">>,
       <<"M","a","y">>, <<"J","u","n">>, <<"J","u","l">>, <<"A","u","g">>,
       <<"S","e","p">>, <<"O","c","t">>, <<"N","o","v">>, <<"D","e","c">> >>

\* (mutant) the date written year first.
FormatTimeYearFirst(t) ==
    Pad4(t.year) \o <<"-">> \o MonthShort[t.month] \o <<"-">> \o Pad2(t.day)
      \o <<" ">> \o Pad2(t.hour) \o <<":">> \o Pad2(t.minute) \o <<":">> \o Pad2(t.second)

\* "[day]-[month repr:short]-[year] [hour]:[minute]:[second]"
FormatTime(t) ==
    Pad2(t.day) \o <<"-">> \o MonthShort[t.month] \o <<"-">> \o Pad4(t.year)
      \o <<" ">> \o Pad2(t.hour) \o <<":">> \o Pad2(t.minute) \o <<":">> \o Pad2(t.second)

\* One log::info! line: the literal part of the format string and the
\* texts substituted for its {} places.
Info(msg, args) == [msg |-> msg, args |-> args]

\* ------------------------------------------------------------------ state
VARIABLES
    ssidLen, passLen,        \* WIFI_SSID, WIFI_PASSWORD (byte lengths)
    syncCompletes, syncAfter,\* the SNTP double: Completed after syncAfter polls, or never
    pc,                      \* position in main / the running phase
    active,                  \* the phase functions currently executing
    handles,                 \* hardware/service handles acquired so far
    calls,                   \* collaborator operations invoked, in order
    faults,                  \* collaborator operations that reported failure
    log,                     \* log lines emitted, in order
    radioConfig,             \* configuration applied to the radio driver
    wifiResult, timeResult, fetchResult, \* what each phase returned
    polls, sleeps, lastStatus,\* the poll loop of update_time: status last observed
    dns,                     \* name servers read from the interface
    response, body,          \* HTTP response in flight, materialized body
    exit                     \* how the process ended

env == <<ssidLen, passLen, syncCompletes, syncAfter>>
results == <<wifiResult, timeResult, fetchResult>>
sync == <<polls, sleeps, lastStatus>>
http == <<response, body>>
vars == <<env, pc, active, handles, calls, faults, log, radioConfig, results,
          sync, dns, http, exit>>

NoText == [ready |-> FALSE, text |-> <<>>]
Text(t) == [ready |-> TRUE, text |-> t]

Init ==
    /\ ssidLen \in SsidLens
    /\ passLen \in PassLens
    /\ \/ syncCompletes = TRUE /\ syncAfter \in 0..MaxPolls
       \/ syncCompletes = FALSE /\ syncAfter = 0
    /\ pc = "start"
    /\ active = {}
    /\ handles = {}
    /\ calls = <<>>
    /\ faults = {}
    /\ log = <<>>
    /\ radioConfig = [set |-> FALSE, ssid |-> 0, password |-> 0, auth |-> ""]
    /\ wifiResult = NoResult
    /\ timeResult = NoResult
    /\ fetchResult = NoResult
    /\ polls = 0
    /\ sleeps = 0
    /\ lastStatus = "none"
    /\ dns = <<>>
    /\ response = NoText
    /\ body = NoText
    /\ exit = Running


\* ---------------------------------------------------------- main: set-up
\* A collaborator call is recorded; the record of a poll loop that has
\* run PollCap times stops growing.
Record(op) == IF polls >= PollCap THEN calls ELSE Append(calls, op)

\* (mutant) the failure is noted and main carries on to its last lines.
AbortAndContinue(e) ==
    /\ pc' = "m_complete"
    /\ exit' = e
    /\ active' = {}

\* The process stops with outcome e.
Abort(e) ==
    /\ pc' = "failed"
    /\ exit' = e
    /\ active' = {}

\* (mutant) the outcome of the acquisition is not looked at.
AcquireUnchecked(h, next, onFail) ==
    /\ calls' = Record(h)
    /\ \E ok \in BOOLEAN :
         /\ faults' = IF ok THEN faults ELSE faults \cup {h}
         /\ handles' = IF ok THEN handles \cup {h} ELSE handles
         /\ pc' = next
         /\ UNCHANGED <<exit, active>>
    /\ UNCHANGED <<env, radioConfig, results, sync, dns, http>>

\* One acquisition of main's set-up: handle h, then on to next, or the
\* process ends with onFail.
Acquire(h, next, onFail) ==
    /\ calls' = Record(h)
    /\ \E ok \in BOOLEAN :
         IF ok
         THEN /\ handles' = handles \cup {h}
              /\ pc' = next
              /\ UNCHANGED <<faults, exit, active>>
         ELSE /\ faults' = faults \cup {h}
              /\ Abort(onFail)
              /\ UNCHANGED handles
    /\ UNCHANGED <<env, radioConfig, results, sync, dns, http>>

\* esp_vfs_eventfd_register under esp_nofail!, then "Setting up the board..."
MainEventfd ==
    /\ pc = "start"
    /\ calls' = Record("esp_vfs_eventfd_register")
    /\ \E ok \in BOOLEAN :
         IF ok
         THEN /\ pc' = "peripherals"
              /\ log' = log \o <<Info("Setting up the eventfd...", <<>>),
                                 Info("Setting up the board...", <<>>)>>
              /\ UNCHANGED <<faults, exit, active>>
         ELSE /\ faults' = faults \cup {"esp_vfs_eventfd_register"}
              /\ log' = Append(log, Info("Setting up the eventfd...", <<>>))
              /\ Abort(Panic("main", DebugFmt(EspErr)))
    /\ UNCHANGED <<env, handles, radioConfig, results, sync, dns, http>>

TakePeripherals ==
    /\ pc = "peripherals"
    /\ Acquire("peripherals", "sys_loop", MainErr(EspErr))
    /\ UNCHANGED log

TakeSysLoop ==
    /\ pc = "sys_loop"
    /\ Acquire("sys_loop", "nvs", MainErr(EspErr))
    /\ UNCHANGED log

TakeNvs ==
    /\ pc = "nvs"
    /\ Acquire("nvs", "timer_service", MainErr(EspErr))
    /\ UNCHANGED log

NewTimerService ==
    /\ pc = "timer_service"
    /\ Acquire("timer_service", "esp_wifi", MainErr(EspErr))
    /\ UNCHANGED log

NewEspWifi ==
    /\ pc = "esp_wifi"
    /\ Acquire("esp_wifi", "wifi", Panic("main", ExpectMsg(<<"failed", "to", "get", "esp_wifi">>, EspErr)))
    /\ UNCHANGED log

WrapAsyncWifi ==
    /\ pc = "wifi"
    /\ Acquire("wifi", "runtime", Panic("main", ExpectMsg(<<"failed", "to", "wrap", "wifi">>, EspErr)))
    /\ UNCHANGED log

\* "Starting async run loop", build the runtime, block_on enters start_wifi.
BuildRuntime ==
    /\ pc = "runtime"
    /\ log' = Append(log, Info("Starting async run loop", <<>>))
    /\ calls' = Record("runtime")
    /\ \E ok \in BOOLEAN :
         IF ok
         THEN /\ handles' = handles \cup {"runtime"}
              /\ pc' = "w_ssid"
              /\ active' = active \cup {"start_wifi"}
              /\ UNCHANGED <<faults, exit>>
         ELSE /\ faults' = faults \cup {"runtime"}
              /\ Abort(MainErr(IoErr))
              /\ UNCHANGED handles
    /\ UNCHANGED <<env, radioConfig, results, sync, dns, http>>


\* ------------------------------------------------------------ start_wifi
\* A phase function returns to the sequencer: it is no longer executing.
Return(phase) == active' = active \ {phase}

\* heapless::String::<32>::try_from(WIFI_SSID).expect("invalid ssid")
WifiConvertSsid ==
    /\ pc = "w_ssid"
    /\ IF Fits(ssidLen, SSID_CAP)
       THEN pc' = "w_password" /\ UNCHANGED <<exit, active>>
       ELSE Abort(Panic("start_wifi", ExpectMsg(<<"invalid", "ssid">>, CapacityErr)))
    /\ UNCHANGED <<env, handles, calls, faults, log, radioConfig, results, sync, dns, http>>

\* heapless::String::<64>::try_from(WIFI_PASSWORD).expect("invalid password")
WifiConvertPassword ==
    /\ pc = "w_password"
    /\ IF Fits(passLen, PASS_CAP)
       THEN pc' = "w_config" /\ UNCHANGED <<exit, active>>
       ELSE Abort(Panic("start_wifi", ExpectMsg(<<"invalid", "password">>, CapacityErr)))
    /\ UNCHANGED <<env, handles, calls, faults, log, radioConfig, results, sync, dns, http>>

\* (mutant) connect's context label copied from start's.
RadioErrorCopied(op) ==
    CASE op = "set_configuration" -> EspErr
      [] op = "start" -> Context(<<"wifi", "couldn't", "start">>, EspErr)
      [] op = "connect" -> Context(<<"wifi", "couldn't", "start">>, EspErr)
      [] op = "wait_netif_up" -> Context(<<"wifi", "netif_up", "failed">>, EspErr)

\* The error start_wifi returns when radio operation op fails:
\* set_configuration(..)? passes the driver's error on as it is, the other
\* three wrap it with .context(..).
RadioError(op) ==
    CASE op = "set_configuration" -> EspErr
      [] op = "start" -> Context(<<"wifi", "couldn't", "start">>, EspErr)
      [] op = "connect" -> Context(<<"wifi", "couldn't", "connect">>, EspErr)
      [] op = "wait_netif_up" -> Context(<<"wifi", "netif_up", "failed">>, EspErr)

\* (mutant) the `?` left out: a failed operation is ignored.
RadioStepUnchecked(op, e, next) ==
    /\ calls' = Record(op)
    /\ \E ok \in BOOLEAN :
         /\ faults' = IF ok THEN faults ELSE faults \cup {op}
         /\ pc' = next
         /\ UNCHANGED <<wifiResult, active>>
    /\ UNCHANGED <<env, handles, log, timeResult, fetchResult, sync, http, exit>>

\* (mutant) a failed operation is tried again.
RadioStepRetrying(op, e, next) ==
    /\ calls' = Record(op)
    /\ \E ok \in BOOLEAN :
         /\ faults' = IF ok THEN faults ELSE faults \cup {op}
         /\ pc' = IF ok THEN next ELSE pc
         /\ UNCHANGED <<wifiResult, active>>
    /\ UNCHANGED <<env, handles, log, timeResult, fetchResult, sync, http, exit>>

\* One fallible radio operation followed by `?`: on failure start_wifi
\* returns Err(e), on success it goes on to next.
RadioStep(op, e, next) ==
    /\ calls' = Record(op)
    /\ \E ok \in BOOLEAN :
         IF ok
         THEN /\ pc' = next
              /\ UNCHANGED <<faults, wifiResult, active>>
         ELSE /\ faults' = faults \cup {op}
              /\ wifiResult' = Err(e)
              /\ pc' = "m_wifi"
              /\ Return("start_wifi")
    /\ UNCHANGED <<env, handles, log, timeResult, fetchResult, sync, http, exit>>

\* wifi.set_configuration(&Configuration::Client(..))?
WifiSetConfiguration ==
    /\ pc = "w_config"
    /\ radioConfig' = [set |-> TRUE, ssid |-> ssidLen, password |-> passLen,
                       auth |-> "WPA2Personal"]
    /\ RadioStep("set_configuration", RadioError("set_configuration"), "w_start")
    /\ UNCHANGED dns

\* wifi.start().await.context("wifi couldn't start")?
WifiStart ==
    /\ pc = "w_start"
    /\ RadioStep("start", RadioError("start"), "w_connect")
    /\ UNCHANGED <<radioConfig, dns>>

\* wifi.connect().await.context("wifi couldn't connect")?
WifiConnect ==
    /\ pc = "w_connect"
    /\ RadioStep("connect", RadioError("connect"), "w_netif")
    /\ UNCHANGED <<radioConfig, dns>>

\* wifi.wait_netif_up().await.context("wifi netif_up failed")?
\* An interface that comes up has been given its two name servers.
WifiWaitNetifUp ==
    /\ pc = "w_netif"
    /\ RadioStep("wait_netif_up", RadioError("wait_netif_up"), "w_dns")
    /\ IF "wait_netif_up" \in faults'
       THEN UNCHANGED dns
       ELSE \E d1 \in DnsAddrs, d2 \in DnsAddrs : dns' = <<d1, d2>>
    /\ UNCHANGED radioConfig

\* The line start_wifi logs for the name servers it read.
DnsLine(primary, secondary) == Info("nameservers {}, {}", <<primary, secondary>>)

\* log "nameservers {}, {}" with get_dns() and get_secondary_dns(); Ok(())
WifiLogDns ==
    /\ pc = "w_dns"
    /\ log' = Append(log, DnsLine(dns[1], dns[2]))
    /\ calls' = Record("get_dns") \o <<"get_secondary_dns">>
    /\ wifiResult' = Ok
    /\ pc' = "m_wifi"
    /\ Return("start_wifi")
    /\ UNCHANGED <<env, handles, faults, radioConfig, timeResult, fetchResult, sync, dns, http, exit>>

\* ------------------------------------------------------- main: sequencer
IsOk(r) == r.st = "ok"

\* (mutant) the result of the phase dropped instead of unwrapped.
ExpectPhaseUnchecked(r, msg, next, phase) ==
    /\ pc' = next
    /\ active' = active \cup {phase}
    /\ UNCHANGED exit

\* phase().await.expect(msg) inside block_on: on Ok the next phase is
\* entered, on Err the task panics with msg and the error.
ExpectPhase(r, msg, next, phase) ==
    IF IsOk(r)
    THEN /\ pc' = next
         /\ active' = active \cup {phase}
         /\ UNCHANGED exit
    ELSE Abort(Panic("main", ExpectMsg(msg, r.err)))

\* start_wifi(&mut wifi).await.expect("couldn't start wifi"); update_time()
MainExpectWifi ==
    /\ pc = "m_wifi"
    /\ ExpectPhase(wifiResult, <<"couldn't", "start", "wifi">>, "t_new", "update_time")
    /\ UNCHANGED <<env, handles, calls, faults, log, radioConfig, results, sync, dns, http>>

\* update_time().await.expect("couldn't update time"); display_url()
MainExpectTime ==
    /\ pc = "m_time"
    /\ ExpectPhase(timeResult, <<"couldn't", "update", "time">>, "f_get", "display_url")
    /\ UNCHANGED <<env, handles, calls, faults, log, radioConfig, results, sync, dns, http>>

\* (mutant) display_url's result dropped: `let _ = display_url().await;`
MainExpectFetchUnchecked ==
    /\ pc = "m_fetch"
    /\ pc' = "m_complete"
    /\ UNCHANGED <<env, active, handles, calls, faults, log, radioConfig, results, sync, dns, http, exit>>

\* display_url().await.expect("couldn't download file"); block_on returns
MainExpectFetch ==
    /\ pc = "m_fetch"
    /\ IF IsOk(fetchResult)
       THEN pc' = "m_complete" /\ UNCHANGED <<exit, active>>
       ELSE Abort(Panic("main", ExpectMsg(<<"couldn't", "download", "file">>, fetchResult.err)))
    /\ UNCHANGED <<env, handles, calls, faults, log, radioConfig, results, sync, dns, http>>

\* log "complete"; Ok(())
MainComplete ==
    /\ pc = "m_complete"
    /\ log' = Append(log, Info("complete", <<>>))
    /\ exit' = Success
    /\ pc' = "done"
    /\ UNCHANGED <<env, active, handles, calls, faults, radioConfig, results, sync, dns, http>>


\* ----------------------------------------------------------- update_time
\* (mutant) the client's construction is not checked before polling.
TimeNewUnchecked ==
    /\ pc = "t_new"
    /\ calls' = Record("sntp_new")
    /\ \E ok \in BOOLEAN : faults' = IF ok THEN faults ELSE faults \cup {"sntp_new"}
    /\ pc' = "t_poll"
    /\ UNCHANGED <<env, active, handles, log, radioConfig, results, sync, dns, http, exit>>

\* EspSntp::new(&SntpConf { .. })?
TimeNew ==
    /\ pc = "t_new"
    /\ calls' = Record("sntp_new")
    /\ \E ok \in BOOLEAN :
         IF ok
         THEN /\ pc' = "t_poll"
              /\ UNCHANGED <<faults, timeResult, active>>
         ELSE /\ faults' = faults \cup {"sntp_new"}
              /\ timeResult' = Err(EspErr)
              /\ pc' = "m_time"
              /\ Return("update_time")
    /\ UNCHANGED <<env, handles, log, radioConfig, wifiResult, fetchResult, sync, dns, http, exit>>

\* What the sync double answers to the poll made after n earlier polls.
StatusAt(n) ==
    IF syncCompletes /\ n >= syncAfter THEN {"Completed"} ELSE SyncStatus \ {"Completed"}

\* (mutant) the loop waits only while the status is InProgress.
KeepPollingInProgress(status) == status = "InProgress"

\* The loop condition: client.get_sync_status() != SyncStatus::Completed
KeepPolling(status) == status # "Completed"

Bump(n) == IF n < PollCap THEN n + 1 ELSE n

\* (mutant) the loop gives up with an error after MaxPolls polls.
TimePollGivingUp ==
    /\ pc = "t_poll"
    /\ calls' = Record("get_sync_status")
    /\ polls' = Bump(polls)
    /\ \E status \in StatusAt(polls) :
         /\ lastStatus' = status
         /\ IF KeepPolling(status) /\ polls >= MaxPolls
            THEN /\ timeResult' = Err(<< <<"sync", "timed", "out">> >>)
                 /\ pc' = "m_time"
                 /\ Return("update_time")
            ELSE /\ pc' = IF KeepPolling(status) THEN "t_sleep" ELSE "t_format"
                 /\ UNCHANGED <<timeResult, active>>
    /\ UNCHANGED <<env, handles, faults, log, radioConfig, wifiResult, fetchResult, sleeps, dns, http, exit>>

\* while client.get_sync_status() != Completed { .. }: one test of the condition
TimePoll ==
    /\ pc = "t_poll"
    /\ calls' = Record("get_sync_status")
    /\ polls' = Bump(polls)
    /\ \E status \in StatusAt(polls) :
         /\ lastStatus' = status
         /\ pc' = IF KeepPolling(status) THEN "t_sleep" ELSE "t_format"
    /\ UNCHANGED <<env, active, handles, faults, log, radioConfig, results, sleeps, dns, http, exit>>

\* tokio::time::sleep(Duration::from_secs(1)).await
TimeSleep ==
    /\ pc = "t_sleep"
    /\ calls' = Record("sleep")
    /\ sleeps' = Bump(sleeps)
    /\ pc' = "t_poll"
    /\ UNCHANGED <<env, active, handles, faults, log, radioConfig, results, polls, lastStatus, dns, http, exit>>

\* log "ntp syncing completed, current time: {}" with format_time()?; Ok(())
TimeFormat ==
    /\ pc = "t_format"
    /\ calls' = Record("format_time")
    /\ \E now \in Times, ok \in BOOLEAN :
         IF ok
         THEN /\ log' = Append(log, Info("ntp syncing completed, current time: {}",
                                         <<FormatTime(now)>>))
              /\ timeResult' = Ok
              /\ UNCHANGED faults
         ELSE /\ faults' = faults \cup {"format_time"}
              /\ timeResult' = Err(FormatErr)
              /\ UNCHANGED log
    /\ pc' = "m_time"
    /\ Return("update_time")
    /\ UNCHANGED <<env, handles, radioConfig, wifiResult, fetchResult, sync, dns, http, exit>>

\* ----------------------------------------------------------- display_url
\* (mutant) a failed request is issued again.
FetchGetRetrying ==
    /\ pc = "f_get"
    /\ calls' = Record("http_get")
    /\ \E ok \in BOOLEAN :
         IF ok
         THEN /\ \E b \in Bodies : response' = Text(b)
              /\ pc' = "f_text"
              /\ UNCHANGED faults
         ELSE /\ faults' = faults \cup {"http_get"}
              /\ UNCHANGED <<pc, response>>
    /\ UNCHANGED <<env, active, handles, log, radioConfig, results, sync, dns, body, exit>>

\* reqwest::get("http://example.com").await?
FetchGet ==
    /\ pc = "f_get"
    /\ calls' = Record("http_get")
    /\ \E ok \in BOOLEAN :
         IF ok
         THEN /\ \E b \in Bodies : response' = Text(b)
              /\ pc' = "f_text"
              /\ UNCHANGED <<faults, fetchResult, active>>
         ELSE /\ faults' = faults \cup {"http_get"}
              /\ fetchResult' = Err(HttpErr)
              /\ pc' = "m_fetch"
              /\ Return("display_url")
              /\ UNCHANGED response
    /\ UNCHANGED <<env, handles, log, radioConfig, wifiResult, timeResult, sync, dns, body, exit>>

\* (mutant) the body trimmed of a trailing line break.
MaterializeTrimmed(r) ==
    IF r.text # <<>> /\ r.text[Len(r.text)] = "\n"
    THEN Text(SubSeq(r.text, 1, Len(r.text) - 1))
    ELSE Text(r.text)

\* The text the fetcher holds once .text() has returned the response's body.
Materialize(r) == Text(r.text)

\* .text().await?
FetchText ==
    /\ pc = "f_text"
    /\ calls' = Record("text")
    /\ \E ok \in BOOLEAN :
         IF ok
         THEN /\ body' = Materialize(response)
              /\ pc' = "f_log"
              /\ UNCHANGED <<faults, fetchResult, active>>
         ELSE /\ faults' = faults \cup {"text"}
              /\ fetchResult' = Err(HttpErr)
              /\ pc' = "m_fetch"
              /\ Return("display_url")
              /\ UNCHANGED body
    /\ UNCHANGED <<env, handles, log, radioConfig, wifiResult, timeResult, sync, dns, response, exit>>

\* The line display_url logs for a body: "{}" with the body.
BodyLine(b) == Info("{}", <<b>>)

\* log::info!("{}", body); Ok(())
FetchLog ==
    /\ pc = "f_log"
    /\ log' = Append(log, BodyLine(body.text))
    /\ fetchResult' = Ok
    /\ pc' = "m_fetch"
    /\ Return("display_url")
    /\ UNCHANGED <<env, handles, calls, faults, radioConfig, wifiResult, timeResult, sync, dns, http, exit>>

\* ---------------------------------------------------------- specification
Next ==
    \/ MainEventfd
    \/ TakePeripherals
    \/ TakeSysLoop
    \/ TakeNvs
    \/ NewTimerService
    \/ NewEspWifi
    \/ WrapAsyncWifi
    \/ BuildRuntime
    \/ WifiConvertSsid
    \/ WifiConvertPassword
    \/ WifiSetConfiguration
    \/ WifiStart
    \/ WifiConnect
    \/ WifiWaitNetifUp
    \/ WifiLogDns
    \/ MainExpectWifi
    \/ TimeNew
    \/ TimePoll
    \/ TimeSleep
    \/ TimeFormat
    \/ MainExpectTime
    \/ FetchGet
    \/ FetchText
    \/ FetchLog
    \/ MainExpectFetch
    \/ MainComplete

Spec == Init /\ [][Next]_vars


\* The phases run on one task that is driven to completion by block_on, and
\* every awaited collaborator call returns: some step is always taken.
FairSpec == Spec /\ WF_vars(Next)

\* ------------------------------------------------------ reading the record
Range(q) == {q[i] : i \in 1..Len(q)}
Count(q, x) == Cardinality({i \in 1..Len(q) : q[i] = x})
IsPrefix(p, q) == Len(p) <= Len(q) /\ \A i \in 1..Len(p) : p[i] = q[i]
\* sub occurs in text as a run of consecutive words
Contains(text, sub) ==
    \E k \in 0..(Len(text) - Len(sub)) : \A i \in 1..Len(sub) : text[k + i] = sub[i]

RadioSteps == <<"set_configuration", "start", "connect", "wait_netif_up">>
RadioOps == Range(RadioSteps) \cup {"get_dns", "get_secondary_dns"}
SyncOps == {"sntp_new", "get_sync_status", "sleep", "format_time"}
FetchOps == {"http_get", "text"}
InRadio(op) == op \in RadioOps
RadioCalls == SelectSeq(calls, InRadio)

\* The phase a collaborator operation belongs to (0: main's set-up).
PhaseOf(op) ==
    IF op \in RadioOps THEN 1 ELSE IF op \in SyncOps THEN 2 ELSE IF op \in FetchOps THEN 3 ELSE 0

CredsValid == ssidLen <= SSID_CAP /\ passLen <= PASS_CAP

\* ----------------------------------------------------------------- claims
\* C1: the phases run in the order start_wifi, update_time, display_url:
\* an operation of update_time is invoked only after start_wifi returned
\* Ok, an operation of display_url only after update_time returned Ok, the
\* recorded operations never step back to an earlier phase, and at most
\* one phase function is executing at any time.
C1_PhasesInOrder ==
    /\ Cardinality(active) <= 1
    /\ \A i \in 1..Len(calls) :
         /\ calls[i] \in SyncOps => IsOk(wifiResult)
         /\ calls[i] \in FetchOps => IsOk(wifiResult) /\ IsOk(timeResult)
         /\ \A j \in i..Len(calls) : PhaseOf(calls[i]) <= PhaseOf(calls[j])
    /\ "update_time" \in active => IsOk(wifiResult)
    /\ "display_url" \in active => IsOk(wifiResult) /\ IsOk(timeResult)

\* The third phase is running and has issued its request.
C1_Witness ==
    /\ active = {"display_url"}
    /\ "http_get" \in Range(calls)
    /\ "sntp_new" \in Range(calls)
    /\ "connect" \in Range(calls)

\* C2: the radio operations are invoked in the order set_configuration,
\* start, connect, wait_netif_up, and once step k has failed none of the
\* steps after k is invoked.
C2_RadioOrder ==
    /\ IsPrefix(SelectSeq(RadioCalls, LAMBDA op : op \in Range(RadioSteps)), RadioSteps)
    /\ \A k \in 1..Len(RadioSteps) :
         RadioSteps[k] \in faults =>
            \A j \in (k + 1)..Len(RadioSteps) : RadioSteps[j] \notin Range(calls)

\* The radio failed at its second step, after the first had been invoked.
C2_Witness ==
    /\ "start" \in faults
    /\ RadioCalls = <<"set_configuration", "start">>
    /\ pc = "failed"

\* C3 (as claimed): with a credential over its capacity, start_wifi ends
\* by returning an error value that names the field, and no radio
\* operation has been attempted.
C3_ConfigErrorReturned ==
    (~CredsValid /\ "runtime" \in handles /\ "start_wifi" \notin active) =>
        /\ wifiResult.st = "err"
        /\ \/ Contains(DebugFmt(wifiResult.err), <<"ssid">>)
           \/ Contains(DebugFmt(wifiResult.err), <<"password">>)
        /\ RadioCalls = <<>>
        /\ ~radioConfig.set


\* The operations of the poll loop, as recorded.
InLoop(op) == op \in {"get_sync_status", "sleep"}
PollTrace == SelectSeq(calls, InLoop)

\* n times (poll, sleep), then the poll that ends the loop.
RECURSIVE PollsThenDone(_)
PollsThenDone(n) ==
    IF n = 0 THEN <<"get_sync_status">>
    ELSE <<"get_sync_status", "sleep">> \o PollsThenDone(n - 1)

\* update_time has observed Completed after exactly syncAfter sleeps.
SyncedAfterExactSleeps ==
    /\ syncCompletes
    /\ lastStatus = "Completed"
    /\ polls = syncAfter + 1
    /\ sleeps = syncAfter
    /\ PollTrace = PollsThenDone(syncAfter)

\* C4 (as claimed): whenever update_time has returned, it has observed
\* Completed, after exactly as many one-second sleeps as there were
\* non-Completed polls.
C4_NeverReturnsBeforeCompleted ==
    timeResult.st # "none" => SyncedAfterExactSleeps

\* C4 (amended): whenever update_time has returned after constructing the
\* SNTP client, it has observed Completed, after exactly as many sleeps as
\* there were non-Completed polls (one after each, none after the
\* Completed poll); a sleep only ever follows a non-Completed poll.
C4_ReturnsOnlyAfterCompleted ==
    /\ (timeResult.st # "none" /\ "sntp_new" \notin faults) => SyncedAfterExactSleeps
    /\ pc = "t_sleep" => lastStatus \in SyncStatus \ {"Completed"}
    /\ pc = "t_format" => SyncedAfterExactSleeps

\* update_time returned Ok after the largest number of non-Completed polls.
C4_Witness ==
    /\ IsOk(timeResult)
    /\ syncAfter = MaxPolls
    /\ sleeps = MaxPolls

\* C5 (as claimed): when format_time fails, update_time still returns Ok,
\* having logged the line with a placeholder, and the run does not fail.
C5_FormatFailureNotFatal ==
    "format_time" \in faults =>
        /\ IsOk(timeResult)
        /\ \E i \in 1..Len(log) : log[i].msg = "ntp syncing completed, current time: {}"
        /\ pc # "failed"

ConnectFailed == "connect" \in faults

\* What holds from the moment connect() has failed.
C6_NothingAfterConnectFails ==
    /\ "wait_netif_up" \notin Range(calls)
    /\ \A op \in SyncOps \cup FetchOps : op \notin Range(calls)
    /\ polls = 0 /\ sleeps = 0 /\ ~response.ready
    /\ pc \in {"m_wifi", "failed"}
    /\ pc = "m_wifi" => wifiResult.st = "err"
    /\ pc = "failed" =>
         /\ exit.kind = "panic"
         /\ Contains(exit.msg, <<"couldn't", "connect">>)

\* C6: when the radio fails at connect(), wait_netif_up is never invoked,
\* no operation of the SNTP client or of the HTTP transport is invoked,
\* and the run ends in a panic whose message contains "couldn't connect".
C6_ConnectFailure ==
    /\ [](ConnectFailed => C6_NothingAfterConnectFails)
    /\ ConnectFailed ~> (pc = "failed" /\ Contains(exit.msg, <<"couldn't", "connect">>))

\* The run has failed at connect() and reported it.
C6_Witness ==
    /\ ConnectFailed
    /\ pc = "failed"
    /\ RadioCalls = <<"set_configuration", "start", "connect">>


\* dd-Mon-yyyy hh:mm:ss
IsTimestamp(t) ==
    /\ Len(t) = 20
    /\ t[3] = "-" /\ t[7] = "-" /\ t[12] = " " /\ t[15] = ":" /\ t[18] = ":"
    /\ \A i \in {1, 2, 8, 9, 10, 11, 13, 14, 16, 17, 19, 20} : t[i] \in Range(Digits)
    /\ SubSeq(t, 4, 6) \in Range(MonthShort)

\* The log holds, in this order, the name-server pair of the interface, a
\* formatted timestamp, the body the transport returned, and "complete".
HappyLog ==
    \E i, j, k, l \in 1..Len(log) :
        /\ i < j /\ j < k /\ k < l
        /\ log[i] = Info("nameservers {}, {}", dns)
        /\ log[j].msg = "ntp syncing completed, current time: {}"
        /\ Len(log[j].args) = 1 /\ IsTimestamp(log[j].args[1])
        /\ log[k] = Info("{}", <<response.text>>)
        /\ log[l] = Info("complete", <<>>)

\* C7: with valid credentials, a sync double that completes and no
\* collaborator failure, the run reaches Done, and at Done the log holds in
\* order the DNS pair, the formatted timestamp, the body and "complete".
C7_HappyPath ==
    /\ [](pc = "done" => exit.kind = "success" /\ HappyLog)
    /\ (pc = "start" /\ CredsValid /\ syncCompletes) ~> (pc = "done" \/ faults # {})

\* Done after three non-Completed polls.
C7_Witness ==
    /\ pc = "done"
    /\ syncAfter = 3
    /\ faults = {}
    /\ response.text # <<>>

IsBodyLine(l) == l.msg = "{}"
FetchFailed == faults \cap FetchOps # {}

\* C8: display_url issues one request, never a second one; when it has
\* returned it has issued exactly one; a failed request or a failed
\* text() makes it return an error with no body logged, and the run fails.
C8_OneRequest ==
    /\ [](/\ Count(calls, "http_get") <= 1
          /\ Count(calls, "text") <= 1
          /\ (fetchResult.st # "none" \/ pc \in {"f_text", "f_log"})
                => Count(calls, "http_get") = 1
          /\ FetchFailed =>
                /\ fetchResult.st = "err"
                /\ pc \in {"m_fetch", "failed"}
                /\ \A i \in 1..Len(log) : ~IsBodyLine(log[i])
                /\ pc = "failed" => exit.kind = "panic")
    /\ FetchFailed ~> (pc = "failed")

\* The request went out once, text() failed, the run has failed.
C8_Witness ==
    /\ "text" \in faults
    /\ Count(calls, "http_get") = 1
    /\ pc = "failed"

\* C9: a line display_url logs carries exactly the body the transport
\* returned, and is logged only once text() has returned it; a display_url
\* that returned Ok has logged it once.
C9_BodyVerbatim ==
    /\ \A i \in 1..Len(log) :
         IsBodyLine(log[i]) =>
            /\ response.ready /\ body.ready
            /\ "text" \in Range(calls) /\ "text" \notin faults
            /\ log[i].args = <<response.text>>
    /\ IsOk(fetchResult) => Cardinality({i \in 1..Len(log) : IsBodyLine(log[i])}) = 1

\* A body of the greatest length, ending in a line break, has been logged.
C9_Witness ==
    /\ IsOk(fetchResult)
    /\ Len(response.text) = MaxBodyLen
    /\ response.text[MaxBodyLen] = "\n"
    /\ \E i \in 1..Len(log) : IsBodyLine(log[i])

\* An error that carries a context label above its root cause.
Labelled(e) == Len(e) >= 2

\* C10 (as claimed): whichever of the four radio steps fails, the error
\* start_wifi returns is wrapped with a label, and that label is not the
\* label of any other step.
C10_EveryStepLabelled ==
    \A s \in Range(RadioSteps) :
        s \in faults =>
            /\ Labelled(wifiResult.err)
            /\ \A t \in Range(RadioSteps) \ {s} :
                 Labelled(RadioError(t)) => RadioError(t)[1] # wifiResult.err[1]


\* The sequencer's state, read off what the phases returned and how the
\* process ended.
SeqState ==
    IF exit.kind \in {"panic", "error"} THEN "Failed"
    ELSE IF exit.kind = "success" THEN "Done"
    ELSE IF IsOk(fetchResult) THEN "Fetched"
    ELSE IF IsOk(timeResult) THEN "TimeSynced"
    ELSE IF IsOk(wifiResult) THEN "WifiUp"
    ELSE "Init"

Rank ==
    CASE SeqState = "Init" -> 0
      [] SeqState = "WifiUp" -> 1
      [] SeqState = "TimeSynced" -> 2
      [] SeqState = "Fetched" -> 3
      [] SeqState = "Done" -> 4
      [] SeqState = "Failed" -> 5

Terminal == SeqState \in {"Done", "Failed"}

\* A step keeps the sequencer's state, moves it one state forward or into
\* Failed; from Done and from Failed there is no step at all.
ForwardStep ==
    /\ ~Terminal
    /\ \/ Rank' = Rank
       \/ Rank' = Rank + 1
       \/ SeqState' = "Failed"

\* C11: the sequencer's state only moves forward along Init, WifiUp,
\* TimeSynced, Fetched, Done, or into Failed; nothing happens after Done or
\* Failed (no collaborator operation, no log line); and with a sync double
\* that completes, every run reaches Done or Failed.
C11_ForwardToTheEnd ==
    /\ [][ForwardStep]_vars
    /\ [](Terminal <=> pc \in {"done", "failed"})
    /\ syncCompletes ~> Terminal

\* The sequencer has passed through every state up to Done.
C11_Witness ==
    /\ SeqState = "Done"
    /\ IsOk(wifiResult) /\ IsOk(timeResult) /\ IsOk(fetchResult)
    /\ syncAfter > 0


Phases == {"start_wifi", "update_time", "display_url"}
PhaseResults == {wifiResult, timeResult, fetchResult}

\* A phase has failed: it returned an error, or it panicked.
PhaseHasFailed ==
    \/ \E r \in PhaseResults : r.st = "err"
    \/ exit.kind = "panic" /\ exit.site \in Phases

\* C12 (as claimed): whenever a phase fails, the sequencer holds the
\* phase's failure as an error value with a cause, the process does not
\* end successfully, and once it has ended the message it reported names
\* the phase that failed.
C12_FailurePropagated ==
    PhaseHasFailed =>
        /\ \E r \in PhaseResults : r.st = "err" /\ r.err # <<>>
        /\ exit.kind # "success"
        /\ pc = "failed" =>
             /\ exit.site = "main"
             /\ wifiResult.st = "err" => Contains(exit.msg, <<"couldn't", "start", "wifi">>)
             /\ timeResult.st = "err" => Contains(exit.msg, <<"couldn't", "update", "time">>)
             /\ fetchResult.st = "err" => Contains(exit.msg, <<"couldn't", "download", "file">>)


\* C13: each of set_configuration, start, connect and wait_netif_up is
\* invoked at most once, at most one of them fails, and the one that
\* failed is the last radio operation of the run.
C13_NoRadioRetry ==
    /\ \A k \in 1..Len(RadioSteps) : Count(calls, RadioSteps[k]) <= 1
    /\ Cardinality(faults \cap Range(RadioSteps)) <= 1
    /\ \A k \in 1..Len(RadioSteps) :
         RadioSteps[k] \in faults => RadioCalls = SubSeq(RadioSteps, 1, k)

\* The last radio step failed and the run has ended.
C13_Witness ==
    /\ "wait_netif_up" \in faults
    /\ RadioCalls = RadioSteps
    /\ pc = "failed"

Polling == pc \in {"t_poll", "t_sleep"}
NeverSynced == ~syncCompletes /\ "sntp_new" \in Range(calls) /\ "sntp_new" \notin faults

\* A step of the poll loop stays in the loop or leaves it for format_time
\* on Completed; it neither ends the process nor makes update_time return.
LoopStep ==
    Polling =>
        /\ pc' \in {"t_poll", "t_sleep", "t_format"}
        /\ pc' = "t_format" => lastStatus' = "Completed"
        /\ pc' # "t_format" => lastStatus' # "Completed"
        /\ exit' = exit
        /\ timeResult' = timeResult
        /\ SeqState' = SeqState

\* C14: once the SNTP client has been constructed, the poll loop is left
\* only on Completed: while polling the sequencer neither fails nor
\* advances, and with a status that never becomes Completed the run polls
\* and sleeps for ever, never reaching Done or Failed.
C14_NoFailureExit ==
    /\ [][LoopStep]_vars
    /\ [](NeverSynced => Polling /\ ~Terminal /\ timeResult.st = "none")
    /\ (NeverSynced /\ pc = "t_poll") ~> (pc = "t_sleep")
    /\ (NeverSynced /\ pc = "t_sleep") ~> (pc = "t_poll")

\* A double that never completes has been polled more than MaxPolls times.
C14_Witness ==
    /\ NeverSynced
    /\ polls > MaxPolls /\ sleeps > MaxPolls
    /\ pc = "t_poll"


CompleteLogged == \E i \in 1..Len(log) : log[i] = Info("complete", <<>>)
AllPhasesOk == IsOk(wifiResult) /\ IsOk(timeResult) /\ IsOk(fetchResult)

\* C15: "complete" is logged, and the process exits successfully, only
\* when all three phases returned Ok; a run that has failed has not
\* logged it; a successful exit has logged it, once.
C15_CompleteOnlyOnSuccess ==
    /\ CompleteLogged => AllPhasesOk /\ SeqState = "Done"
    /\ exit.kind = "success" => AllPhasesOk /\ Count(log, Info("complete", <<>>)) = 1
    /\ SeqState = "Failed" => ~CompleteLogged
    /\ PhaseHasFailed => ~CompleteLogged /\ exit.kind # "success"

\* The last phase returned an error and the run has failed.
C15_Witness ==
    /\ SeqState = "Failed"
    /\ IsOk(wifiResult) /\ IsOk(timeResult)
    /\ fetchResult.st = "err"

SntpFailed == "sntp_new" \in faults

\* What holds once EspSntp::new has failed.
C16_NothingAfterSntpFails ==
    /\ polls = 0 /\ sleeps = 0 /\ lastStatus = "none"
    /\ \A op \in (SyncOps \ {"sntp_new"}) \cup FetchOps : op \notin Range(calls)
    /\ timeResult.st = "err"
    /\ pc \in {"m_time", "failed"}

\* C16: the SNTP client is constructed at most once, and only after
\* wait_netif_up has succeeded and start_wifi returned Ok; if its
\* construction fails the status is never polled, there is no sleep, no
\* HTTP request is issued, and the run fails.
C16_SntpOnceAfterInterfaceUp ==
    /\ [](/\ Count(calls, "sntp_new") <= 1
          /\ "sntp_new" \in Range(calls) =>
                /\ IsOk(wifiResult)
                /\ "wait_netif_up" \notin faults
                /\ \E i, j \in 1..Len(calls) :
                     i < j /\ calls[i] = "wait_netif_up" /\ calls[j] = "sntp_new"
          /\ SntpFailed => C16_NothingAfterSntpFails)
    /\ SntpFailed ~> (SeqState = "Failed")

\* The construction failed and the run has ended.
C16_Witness ==
    /\ SntpFailed
    /\ pc = "failed"
    /\ Contains(exit.msg, <<"couldn't", "update", "time">>)

Handles == {"peripherals", "sys_loop", "nvs", "timer_service", "esp_wifi", "wifi", "runtime"}
PhaseStarted ==
    \/ active # {}
    \/ \E r \in PhaseResults : r.st # "none"
    \/ \E i \in 1..Len(calls) : PhaseOf(calls[i]) > 0
    \/ exit.site \in Phases

\* C17: each handle is acquired at most once; when the first phase begins
\* each of the seven has been acquired exactly once; and a failed
\* acquisition ends the run in failure at once, with no radio operation,
\* no SNTP client and no HTTP request.
C17_HandlesOnceBeforePhases ==
    /\ \A h \in Handles : Count(calls, h) <= 1
    /\ \A h \in Handles : h \in handles <=> (h \in Range(calls) /\ h \notin faults)
    /\ PhaseStarted => handles = Handles /\ \A h \in Handles : Count(calls, h) = 1
    /\ faults \cap Handles # {} =>
         /\ SeqState = "Failed" /\ pc = "failed"
         /\ ~PhaseStarted
         /\ Cardinality(faults) = 1
         /\ \A i \in 1..Len(calls) : PhaseOf(calls[i]) = 0

\* Wrapping the wifi driver failed, after five handles had been acquired.
C17_Witness ==
    /\ "wifi" \in faults
    /\ Cardinality(handles) = 5
    /\ pc = "failed"

====
